---------------------------- MODULE Spec2Model ----------------------------
(***************************************************************************)
(* Model of scripts/remote_config_wrapper.c: a launcher that checks its    *)
(* argument count and replaces its process image with                      *)
(*   /bin/bash /home/volumio/Quadify/scripts/install_remote_config.sh A    *)
(*                                                                         *)
(* The state holds two invocations of the program (Runs) on one machine,   *)
(* so that statements comparing two runs can be written as state           *)
(* predicates.  Each statement of main is one action.  What lies outside   *)
(* the program (the state of /bin/bash and of the script file, and what    *)
(* bash does once it owns the process) is the environment: it is chosen in *)
(* Init or by the Bash* actions.                                           *)
(*                                                                         *)
(* argc >= 1: the target kernel (Linux >= 5.18) never starts a program     *)
(* with an empty argument vector.                                          *)
(***************************************************************************)
EXTENDS Integers, Sequences, FiniteSets, TLC

\* ------------------------------------------------------------- bounds
MaxArgc == 3
MaxStatus == 2

Runs == {1, 2}
ProgNames == {"./remote_config_wrapper", "rcw"}
Args == {"", "/mnt/config", "a b;$(c)"}
ScriptStatuses == 0 .. MaxStatus

\* ------------------------------------------------- program constants
InterpreterPath == "/bin/bash"
InterpreterName == "bash"
ScriptPath == "/home/volumio/Quadify/scripts/install_remote_config.sh"
RequiredArgc == 2
UsageStatus == 1
FailStatus == 1
\* bash(1): the status of bash when the script file cannot be opened.
BashNoFileStatus == 127

VARIABLES
    argv,         \* argv[r]: the argument vector of run r (argv[r][1] is C's argv[0])
    pc,           \* pc[r]: the statement of main run r is at
    streams,      \* streams[r].stdout, streams[r].stderr: what was written, in order
    errno,        \* errno[r]: "0" or the error of the last failed system call
    execCalls,    \* execCalls[r]: the execl calls run r has issued, in order
    procs,        \* procs[r]: the live processes of run r, [pid, image]
    launcherExit, \* launcherExit[r]: {} or {s}, s the status main returned
    interpExit,   \* interpExit[r]: {} or {s}, s the status the interpreter exited with
    waited,       \* waited[r]: {} or {s}, s the status the invoker collected for run r
    trace,        \* trace[r]: the statements of main executed so far (history)
    binBash,      \* "OK", or the errno execve("/bin/bash") fails with
    scriptExists  \* whether the file at ScriptPath exists

vars == <<argv, pc, streams, errno, execCalls, procs, launcherExit, interpExit,
          waited, trace, binBash, scriptExists>>

\* ------------------------------------------------------------ helpers
argc(r) == Len(argv[r])
\* C's argv[i] of run r
Arg(r, i) == argv[r][i + 1]

Pid(r) == r
Image(r) == {p.image : p \in {q \in procs[r] : q.pid = Pid(r)}}

ArgVectors == UNION {{<<n>> \o t : n \in ProgNames, t \in [1 .. k -> Args]} : k \in 0 .. MaxArgc - 1}

ExecErrors == {"ENOENT", "EACCES"}

\* strerror(3)
StrError(e) ==
    CASE e = "ENOENT" -> "No such file or directory"
      [] e = "EACCES" -> "Permission denied"
      [] OTHER -> "Success"

Line(by, text) == [by |-> by, text |-> text]

Write(r, stream, text) ==
    [streams EXCEPT ![r][stream] = Append(@, Line("launcher", text))]

\* Variant of ArgCountWrong: the test written as argc < 2.
ArgCountTooFew(r) == argc(r) < RequiredArgc

\* Variant of ArgCountWrong: an empty argument rejected as well.
ArgCountWrongOrEmpty(r) == argc(r) # RequiredArgc \/ Arg(r, 1) = ""

\* line 6: if (argc != 2)
ArgCountWrong(r) == argc(r) # RequiredArgc

\* Variant of UsageStream: printf in place of fprintf(stderr, ...).
UsageOnStdout == "stdout"

\* line 7: fprintf(stderr, "Usage: %s <remote_config_folder>\n", argv[0])
UsageStream == "stderr"
UsageText(r) == "Usage: " \o Arg(r, 0) \o " <remote_config_folder>\n"

\* Variant of ExeclCall: the argument interpolated into a shell command string.
ExeclShellString(r) ==
    [path |-> InterpreterPath,
     args |-> <<InterpreterName, "-c", ScriptPath \o " " \o Arg(r, 1)>>]

\* line 11: execl("/bin/bash", "bash", SCRIPT, argv[1], (char *)NULL)
ExeclCall(r) ==
    [path |-> InterpreterPath,
     args |-> <<InterpreterName, ScriptPath, Arg(r, 1)>>]

\* Variant of PerrorText: fprintf(stderr, "execl failed\n") in place of perror.
PerrorTextNoCause(r) == "execl failed\n"

\* line 12: perror("execl failed")
PerrorText(r) == "execl failed: " \o StrError(errno[r]) \o "\n"

\* exit of the process of run r with status s, collected by its invoker
Exit(r, s) ==
    /\ procs' = [procs EXCEPT ![r] = {q \in @ : q.pid # Pid(r)}]
    /\ waited' = [waited EXCEPT ![r] = {s}]

\* ------------------------------------------------------------- Init
Init ==
    /\ argv \in [Runs -> ArgVectors]
    /\ pc = [r \in Runs |-> "check"]
    /\ streams = [r \in Runs |-> [stdout |-> <<>>, stderr |-> <<>>]]
    /\ errno = [r \in Runs |-> "0"]
    /\ execCalls = [r \in Runs |-> <<>>]
    /\ procs = [r \in Runs |-> {[pid |-> Pid(r), image |-> "launcher"]}]
    /\ launcherExit = [r \in Runs |-> {}]
    /\ interpExit = [r \in Runs |-> {}]
    /\ waited = [r \in Runs |-> {}]
    /\ trace = [r \in Runs |-> <<>>]
    /\ binBash \in {"OK"} \cup ExecErrors
    /\ scriptExists \in BOOLEAN

\* ------------------------------------------------- statements of main
\* line 6
CheckArgs(r) ==
    /\ pc[r] = "check"
    /\ pc' = [pc EXCEPT ![r] = IF ArgCountWrong(r) THEN "usage" ELSE "execl"]
    /\ trace' = [trace EXCEPT ![r] = Append(@, "check")]
    /\ UNCHANGED <<argv, streams, errno, execCalls, procs, launcherExit,
                   interpExit, waited, binBash, scriptExists>>

\* line 7
PrintUsage(r) ==
    /\ pc[r] = "usage"
    /\ streams' = Write(r, UsageStream, UsageText(r))
    /\ pc' = [pc EXCEPT ![r] = "usage_ret"]
    /\ trace' = [trace EXCEPT ![r] = Append(@, "usage")]
    /\ UNCHANGED <<argv, errno, execCalls, procs, launcherExit, interpExit,
                   waited, binBash, scriptExists>>

\* line 8: return 1
ReturnUsage(r) ==
    /\ pc[r] = "usage_ret"
    /\ launcherExit' = [launcherExit EXCEPT ![r] = {UsageStatus}]
    /\ Exit(r, UsageStatus)
    /\ pc' = [pc EXCEPT ![r] = "exited"]
    /\ trace' = [trace EXCEPT ![r] = Append(@, "usage_ret")]
    /\ UNCHANGED <<argv, streams, errno, execCalls, interpExit, binBash,
                   scriptExists>>

\* Variant of ExeclOk: the interpreter started as a child (fork + exec), the
\* launcher going on to the next statement.
ExeclOkSpawnsChild(r) ==
    /\ pc[r] = "execl"
    /\ binBash = "OK"
    /\ execCalls' = [execCalls EXCEPT ![r] = Append(@, ExeclCall(r))]
    /\ procs' = [procs EXCEPT ![r] =
                    @ \cup {[pid |-> Pid(r) + Cardinality(Runs), image |-> InterpreterName]}]
    /\ pc' = [pc EXCEPT ![r] = "perror"]
    /\ trace' = [trace EXCEPT ![r] = Append(@, "execl")]
    /\ UNCHANGED <<argv, streams, errno, launcherExit, interpExit, waited,
                   binBash, scriptExists>>

\* Variant of ExeclOk: control comes back to main after the image was replaced.
ExeclOkFallsThrough(r) ==
    /\ pc[r] = "execl"
    /\ binBash = "OK"
    /\ execCalls' = [execCalls EXCEPT ![r] = Append(@, ExeclCall(r))]
    /\ pc' = [pc EXCEPT ![r] = "perror"]
    /\ trace' = [trace EXCEPT ![r] = Append(@, "execl")]
    /\ UNCHANGED <<argv, streams, errno, procs, launcherExit, interpExit, waited,
                   binBash, scriptExists>>

\* Variant of ExeclOk: the script's existence tested before the call, a missing
\* script reported by the launcher itself.
ExeclOkChecksScript(r) ==
    /\ pc[r] = "execl"
    /\ binBash = "OK"
    /\ execCalls' = [execCalls EXCEPT ![r] = Append(@, ExeclCall(r))]
    /\ IF scriptExists
          THEN /\ procs' = [procs EXCEPT ![r] =
                      {IF q.pid = Pid(r) THEN [q EXCEPT !.image = InterpreterName] ELSE q
                          : q \in @}]
               /\ pc' = [pc EXCEPT ![r] = "replaced"]
               /\ UNCHANGED errno
          ELSE /\ errno' = [errno EXCEPT ![r] = "ENOENT"]
               /\ pc' = [pc EXCEPT ![r] = "perror"]
               /\ UNCHANGED procs
    /\ trace' = [trace EXCEPT ![r] = Append(@, "execl")]
    /\ UNCHANGED <<argv, streams, launcherExit, interpExit, waited, binBash,
                   scriptExists>>

\* line 11, execve succeeds: the process image becomes bash; no statement of
\* main runs after it.
ExeclOk(r) ==
    /\ pc[r] = "execl"
    /\ binBash = "OK"
    /\ execCalls' = [execCalls EXCEPT ![r] = Append(@, ExeclCall(r))]
    /\ procs' = [procs EXCEPT ![r] =
                    {IF q.pid = Pid(r) THEN [q EXCEPT !.image = InterpreterName] ELSE q
                        : q \in @}]
    /\ pc' = [pc EXCEPT ![r] = "replaced"]
    /\ trace' = [trace EXCEPT ![r] = Append(@, "execl")]
    /\ UNCHANGED <<argv, streams, errno, launcherExit, interpExit, waited,
                   binBash, scriptExists>>

\* line 11, execve fails: execl returns -1 with errno set
ExeclFail(r) ==
    /\ pc[r] = "execl"
    /\ binBash \in ExecErrors
    /\ execCalls' = [execCalls EXCEPT ![r] = Append(@, ExeclCall(r))]
    /\ errno' = [errno EXCEPT ![r] = binBash]
    /\ pc' = [pc EXCEPT ![r] = "perror"]
    /\ trace' = [trace EXCEPT ![r] = Append(@, "execl")]
    /\ UNCHANGED <<argv, streams, procs, launcherExit, interpExit, waited,
                   binBash, scriptExists>>

\* line 12
Perror(r) ==
    /\ pc[r] = "perror"
    /\ streams' = Write(r, "stderr", PerrorText(r))
    /\ pc' = [pc EXCEPT ![r] = "fail_ret"]
    /\ trace' = [trace EXCEPT ![r] = Append(@, "perror")]
    /\ UNCHANGED <<argv, errno, execCalls, procs, launcherExit, interpExit,
                   waited, binBash, scriptExists>>

\* Variant of ReturnFail: return 0 after the failure was reported.
ReturnFailZero(r) ==
    /\ pc[r] = "fail_ret"
    /\ launcherExit' = [launcherExit EXCEPT ![r] = {0}]
    /\ Exit(r, 0)
    /\ pc' = [pc EXCEPT ![r] = "exited"]
    /\ trace' = [trace EXCEPT ![r] = Append(@, "fail_ret")]
    /\ UNCHANGED <<argv, streams, errno, execCalls, interpExit, binBash,
                   scriptExists>>

\* Variant of ReturnFail: the call tried again in place of returning.
ReturnFailRetries(r) ==
    /\ pc[r] = "fail_ret"
    /\ pc' = [pc EXCEPT ![r] = IF Len(trace[r]) < 8 THEN "execl" ELSE "exited"]
    /\ trace' = [trace EXCEPT ![r] = Append(@, "fail_ret")]
    /\ UNCHANGED <<argv, streams, errno, execCalls, procs, launcherExit,
                   interpExit, waited, binBash, scriptExists>>

\* line 13: return 1
ReturnFail(r) ==
    /\ pc[r] = "fail_ret"
    /\ launcherExit' = [launcherExit EXCEPT ![r] = {FailStatus}]
    /\ Exit(r, FailStatus)
    /\ pc' = [pc EXCEPT ![r] = "exited"]
    /\ trace' = [trace EXCEPT ![r] = Append(@, "fail_ret")]
    /\ UNCHANGED <<argv, streams, errno, execCalls, interpExit, binBash,
                   scriptExists>>

\* ------------------------------------------- the replaced process (bash)
\* bash cannot open the script: it reports that itself and exits 127.
BashNoScript(r) ==
    /\ Image(r) = {InterpreterName}
    /\ ~scriptExists
    /\ streams' = [streams EXCEPT ![r].stderr =
                      Append(@, Line(InterpreterName,
                          "bash: " \o ScriptPath \o ": No such file or directory\n"))]
    /\ interpExit' = [interpExit EXCEPT ![r] = {BashNoFileStatus}]
    /\ Exit(r, BashNoFileStatus)
    /\ UNCHANGED <<argv, pc, errno, execCalls, launcherExit, trace, binBash,
                   scriptExists>>

\* bash runs the script, which ends with some status s.
BashRunScript(r) ==
    /\ Image(r) = {InterpreterName}
    /\ scriptExists
    /\ \E s \in ScriptStatuses :
          /\ interpExit' = [interpExit EXCEPT ![r] = {s}]
          /\ Exit(r, s)
    /\ UNCHANGED <<argv, pc, streams, errno, execCalls, launcherExit, trace,
                   binBash, scriptExists>>

LauncherStep(r) ==
    \/ CheckArgs(r)
    \/ PrintUsage(r)
    \/ ReturnUsage(r)
    \/ ExeclOk(r)
    \/ ExeclFail(r)
    \/ Perror(r)
    \/ ReturnFail(r)

Next ==
    \E r \in Runs :
        \/ LauncherStep(r)
        \/ BashNoScript(r)
        \/ BashRunScript(r)

Spec == Init /\ [][Next]_vars

\* A started process keeps being scheduled until it ends.
FairSpec == Spec /\ \A r \in Runs : WF_vars(LauncherStep(r) \/ BashNoScript(r) \/ BashRunScript(r))

\* ------------------------------------------------------- properties
\* The lines the launcher's own code wrote to a stream of run r.
LauncherLines(r, stream) == SelectSeq(streams[r][stream], LAMBDA l : l.by = "launcher")

\* The process of run r has ended.
Ended(r) == procs[r] = {}

\* C1: with an argument count other than 1 (argc # 2) the launcher writes the
\* usage message to the error stream and exits with status 1, and the
\* replacement call is never attempted: the script is never started.
C1_UsageError ==
    \A r \in Runs :
        Len(argv[r]) # 2 =>
            /\ pc[r] \in {"check", "usage", "usage_ret", "exited"}
            /\ execCalls[r] = <<>>
            /\ Image(r) \subseteq {"launcher"}
            /\ interpExit[r] = {}
            /\ pc[r] \in {"usage_ret", "exited"} =>
                  streams[r].stderr =
                      <<[by |-> "launcher",
                         text |-> "Usage: " \o argv[r][1] \o " <remote_config_folder>\n"]>>
            /\ pc[r] = "exited" =>
                  launcherExit[r] = {1} /\ waited[r] = {1} /\ Ended(r)

\* C1's case: one run with no argument and one with two have both ended.
C1_Witness ==
    \E r1, r2 \in Runs :
        /\ Len(argv[r1]) = 1 /\ pc[r1] = "exited"
        /\ Len(argv[r2]) = 3 /\ pc[r2] = "exited"

\* C2: with one argument A the replacement is attempted with the vector
\* [bash, fixed script path, A], A being one unmodified element.
C2_ArgvExact ==
    \A r \in Runs :
        /\ \A i \in 1 .. Len(execCalls[r]) :
              /\ execCalls[r][i].path = "/bin/bash"
              /\ Len(execCalls[r][i].args) = 3
              /\ execCalls[r][i].args =
                    <<"bash", "/home/volumio/Quadify/scripts/install_remote_config.sh",
                      argv[r][2]>>
        /\ (Len(argv[r]) = 2 /\ pc[r] \notin {"check", "execl"}) => Len(execCalls[r]) = 1

\* C2's case: the call was made for an empty argument and for one with
\* whitespace and shell metacharacters.
C2_Witness ==
    \E r1, r2 \in Runs :
        /\ Len(argv[r1]) = 2 /\ argv[r1][2] = "" /\ Len(execCalls[r1]) = 1
        /\ Len(argv[r2]) = 2 /\ argv[r2][2] = "a b;$(c)" /\ Len(execCalls[r2]) = 1

\* C3 as stated: if the script file does not exist (one argument supplied),
\* the launcher exits with status 1 and writes a diagnostic to the error stream.
C3_Original ==
    \A r \in Runs :
        (Len(argv[r]) = 2 /\ ~scriptExists /\ Ended(r)) =>
            /\ launcherExit[r] = {1}
            /\ waited[r] = {1}
            /\ Len(LauncherLines(r, "stderr")) = 1

\* C3, amended: with one argument and the script file missing, what happens
\* depends on /bin/bash alone.  If /bin/bash can be executed the replacement
\* succeeds: the launcher writes nothing and does not exit itself; bash
\* writes the diagnostic and the process ends with bash's status 127.  If
\* /bin/bash cannot be executed the launcher writes its one diagnostic and
\* exits with status 1.  In neither case does the script run.
C3_MissingScript ==
    \A r \in Runs :
        (Len(argv[r]) = 2 /\ ~scriptExists /\ Ended(r)) =>
            IF binBash = "OK"
              THEN /\ pc[r] = "replaced"
                   /\ launcherExit[r] = {}
                   /\ LauncherLines(r, "stderr") = <<>>
                   /\ LauncherLines(r, "stdout") = <<>>
                   /\ Len(streams[r].stderr) = 1
                   /\ streams[r].stderr[1].by = "bash"
                   /\ interpExit[r] = {127}
                   /\ waited[r] = {127}
              ELSE /\ pc[r] = "exited"
                   /\ launcherExit[r] = {1}
                   /\ waited[r] = {1}
                   /\ Len(LauncherLines(r, "stderr")) = 1
                   /\ streams[r].stderr = LauncherLines(r, "stderr")
                   /\ interpExit[r] = {}

\* C3's case: one argument, no script file, /bin/bash present, the process ended.
C3_Witness ==
    \E r \in Runs :
        /\ Len(argv[r]) = 2
        /\ ~scriptExists
        /\ binBash = "OK"
        /\ Ended(r)

\* C4: after a successful replacement no statement of main runs and main
\* never returns; perror and the return after it are reached only when execl
\* failed; the status the invoker sees is the replaced process's.
C4_State ==
    \A r \in Runs :
        /\ (pc[r] \in {"perror", "fail_ret"} \/ (pc[r] = "exited" /\ Len(argv[r]) = 2)) =>
              /\ binBash # "OK"
              /\ errno[r] # "0"
              /\ Image(r) \subseteq {"launcher"}
              /\ interpExit[r] = {}
        /\ pc[r] = "replaced" =>
              /\ binBash = "OK"
              /\ launcherExit[r] = {}
              /\ waited[r] = interpExit[r]
              /\ trace[r] = <<"check", "execl">>

C4_Step ==
    \A r \in Runs :
        pc[r] = "replaced" =>
            /\ pc'[r] = "replaced"
            /\ trace'[r] = trace[r]
            /\ launcherExit'[r] = {}
            /\ execCalls'[r] = execCalls[r]
            /\ LauncherLines(r, "stderr")' = LauncherLines(r, "stderr")
            /\ LauncherLines(r, "stdout")' = LauncherLines(r, "stdout")

C4_NoReturn == [](C4_State) /\ [][C4_Step]_vars

\* C4's case: the image was replaced and the replaced process has ended.
C4_Witness ==
    \E r \in Runs : pc[r] = "replaced" /\ Ended(r) /\ waited[r] # {}

\* C5: when the replacement call fails, the launcher writes "execl failed"
\* with the system's description of the error to the error stream and
\* exits with status 1.
C5_ExecFailureReported ==
    \A r \in Runs :
        (Len(argv[r]) = 2 /\ binBash # "OK") =>
            /\ pc[r] # "replaced"
            /\ pc[r] \in {"fail_ret", "exited"} =>
                  streams[r].stderr =
                      <<[by |-> "launcher",
                         text |-> "execl failed: "
                                    \o (IF binBash = "ENOENT"
                                          THEN "No such file or directory"
                                          ELSE "Permission denied")
                                    \o "\n"]>>
            /\ pc[r] = "exited" =>
                  launcherExit[r] = {1} /\ waited[r] = {1} /\ Ended(r)

\* C5's case: /bin/bash exists but may not be executed, and the run has ended.
C5_Witness ==
    \E r \in Runs : Len(argv[r]) = 2 /\ binBash = "EACCES" /\ pc[r] = "exited"

\* C6: main never returns 0: every exit of the launcher itself has status 1
\* and happens exactly when the argument count is wrong or the replacement
\* failed; a status of 0 comes only from the replaced process.
C6_NeverZero ==
    \A r \in Runs :
        /\ launcherExit[r] \subseteq {1}
        /\ launcherExit[r] # {} <=> pc[r] = "exited"
        /\ pc[r] = "exited" =>
              \/ Len(argv[r]) # 2
              \/ (Len(execCalls[r]) = 1 /\ binBash # "OK")
        /\ (Ended(r) /\ (Len(argv[r]) # 2 \/ binBash # "OK")) => launcherExit[r] = {1}
        /\ Ended(r) => (waited[r] = launcherExit[r] \/ waited[r] = interpExit[r])
        /\ 0 \in waited[r] => (pc[r] = "replaced" /\ 0 \in interpExit[r])

\* C6's case: one run ended by the launcher itself, the other by the script
\* with status 0 (two settings of /bin/bash cannot meet in one state, so the
\* first is a usage error).
C6_Witness ==
    \E r1, r2 \in Runs :
        /\ launcherExit[r1] = {1}
        /\ Len(argv[r2]) = 2 /\ waited[r2] = {0}

\* C7: a failed invocation (usage error or replacement failure) writes exactly
\* one diagnostic line, to the error stream, and ends with a non-zero status;
\* a hand-off writes nothing of the launcher's own to any stream.
C7_OneDiagnostic ==
    \A r \in Runs :
        /\ LauncherLines(r, "stdout") = <<>>
        /\ Len(LauncherLines(r, "stderr")) <= 1
        /\ pc[r] = "exited" =>
              /\ Len(LauncherLines(r, "stderr")) = 1
              /\ streams[r].stderr = LauncherLines(r, "stderr")
              /\ streams[r].stdout = <<>>
              /\ waited[r] # {}
              /\ 0 \notin waited[r]
        /\ pc[r] = "replaced" => LauncherLines(r, "stderr") = <<>>

\* C7's case: one run failed and ended, the other handed off and the script ended.
C7_Witness ==
    \E r1, r2 \in Runs :
        /\ pc[r1] = "exited"
        /\ pc[r2] = "replaced" /\ Ended(r2)

\* C8: no child process is created: the launcher's own process becomes the
\* interpreter, the status the invoker collects is the interpreter's, and the
\* launcher neither runs beside the script nor outlives it.
C8_NoChild ==
    \A r \in Runs :
        /\ \A p \in procs[r] : p.pid = r
        /\ Cardinality(procs[r]) <= 1
        /\ execCalls[r] # <<>> /\ binBash = "OK" =>
              /\ pc[r] = "replaced"
              /\ Image(r) \subseteq {"bash"}
              /\ waited[r] = interpExit[r]
              /\ launcherExit[r] = {}
        /\ interpExit[r] # {} => Ended(r)

\* C8's case: the script ended with a non-zero status, which the invoker collected.
C8_Witness ==
    \E r \in Runs : \E s \in ScriptStatuses :
        s > 0 /\ interpExit[r] = {s} /\ waited[r] = {s} /\ Ended(r)

\* The three ends a run of main has.
UsageExit(r) == pc[r] = "exited" /\ trace[r] = <<"check", "usage", "usage_ret">>
FailureExit(r) == pc[r] = "exited" /\ trace[r] = <<"check", "execl", "perror", "fail_ret">>
HandOff(r) == pc[r] = "replaced" /\ trace[r] = <<"check", "execl">>
Terminal(r) == pc[r] \in {"exited", "replaced"}

\* C9: every run reaches exactly one of the three ends; the argument check
\* comes before anything else; the replacement call is made at most once and
\* only after the check passed; nothing is retried after an error.
C9_State ==
    \A r \in Runs :
        /\ Terminal(r) =>
              /\ UsageExit(r) \/ FailureExit(r) \/ HandOff(r)
              /\ ~(UsageExit(r) /\ FailureExit(r))
              /\ ~(UsageExit(r) /\ HandOff(r))
              /\ ~(FailureExit(r) /\ HandOff(r))
        /\ trace[r] # <<>> => trace[r][1] = "check"
        /\ trace[r] = <<>> =>
              /\ streams[r] = [stdout |-> <<>>, stderr |-> <<>>]
              /\ execCalls[r] = <<>>
              /\ launcherExit[r] = {}
              /\ Image(r) = {"launcher"}
        /\ Len(execCalls[r]) <= 1
        /\ Cardinality({i \in 1 .. Len(trace[r]) : trace[r][i] = "execl"}) = Len(execCalls[r])
        /\ execCalls[r] # <<>> => (Len(argv[r]) = 2 /\ trace[r][1] = "check")

C9_Step ==
    \A r \in Runs :
        Terminal(r) =>
            /\ pc'[r] = pc[r]
            /\ trace'[r] = trace[r]
            /\ execCalls'[r] = execCalls[r]
            /\ launcherExit'[r] = launcherExit[r]

C9_OneOutcome ==
    /\ [](C9_State)
    /\ [][C9_Step]_vars
    /\ \A r \in Runs : <>(Terminal(r))

\* C9's case: one run ended on the usage error and the other on a failed call.
C9_Witness == \E r1, r2 \in Runs : UsageExit(r1) /\ FailureExit(r2)

\* One sequence is a prefix of the other.
PrefixRelated(a, b) ==
    \A i \in 1 .. (IF Len(a) < Len(b) THEN Len(a) ELSE Len(b)) : a[i] = b[i]

\* C10: two runs with one argument each, differing only in the argument's
\* value, take the same path through main and issue the same call but for the
\* third element of the vector.
C10_ArgumentOpaque ==
    \A r1, r2 \in Runs :
        (Len(argv[r1]) = 2 /\ Len(argv[r2]) = 2 /\ argv[r1][1] = argv[r2][1]) =>
            /\ PrefixRelated(trace[r1], trace[r2])
            /\ (Terminal(r1) /\ Terminal(r2)) =>
                  /\ trace[r1] = trace[r2]
                  /\ pc[r1] = pc[r2]
                  /\ Len(execCalls[r1]) = 1
                  /\ Len(execCalls[r2]) = 1
                  /\ execCalls[r1][1].path = execCalls[r2][1].path
                  /\ Len(execCalls[r1][1].args) = Len(execCalls[r2][1].args)
                  /\ \A i \in 1 .. 2 : execCalls[r1][1].args[i] = execCalls[r2][1].args[i]
                  /\ LauncherLines(r1, "stderr") = LauncherLines(r2, "stderr")
                  /\ launcherExit[r1] = launcherExit[r2]

\* C10's case: both runs are over, one with an empty argument and one with
\* another value.
C10_Witness ==
    \E r1, r2 \in Runs :
        /\ Len(argv[r1]) = 2 /\ Len(argv[r2]) = 2
        /\ argv[r1][1] = argv[r2][1]
        /\ argv[r1][2] = "" /\ argv[r2][2] # ""
        /\ Terminal(r1) /\ Terminal(r2)

=============================================================================
